---- MODULE Spec2Model ----
(***************************************************************************)
(* A model of package segment (xk6-segment): the SegmentedIndex cursor     *)
(* with its three navigation methods Next, Prev and GoTo, and the          *)
(* name-keyed cache sharedSegmentedIndexes behind XSharedSegmentedIndex.   *)
(* Goroutines are the members of Threads; every statement that reads or    *)
(* writes shared memory is a step of its own, so that the locks, and not   *)
(* the grain of the model, are what makes a method atomic.                 *)
(***************************************************************************)
EXTENDS Integers, Sequences, FiniteSets, TLC

\* ------------------------------------------------------------------ bounds
\* Largest cycle length (lcd) of a striping triple.
MaxLcd == 3
\* GoTo targets range over 0 .. MaxValue, i.e. over MaxCycles whole cycles
\* of the longest pattern and the partial cycle after them.
MaxCycles == 2
\* Next is not called once scaled has reached MaxScaled.
MaxScaled == 5
\* Number of goroutines.
NumThreads == 2
\* Largest number of segments one cycle is divided into.
MaxSegments == 2
\* In the specification of the whole module, a call starts while no more
\* objects than this exist or are on their way.
MaxObjects == 2
\* The same under the fair scheduler.
MaxFairObjects == 1
\* In the specification of the whole module, Next is called on cursors
\* below this and GoTo with values up to this.
MaxModScaled == 1

MaxValue == (MaxCycles + 1) * MaxLcd - 1
Threads == 1 .. NumThreads
\* The zero value of a mutex: held by nobody.
NoThread == 0
\* A nil *SegmentedIndex.
Nil == 0

\* ------------------------------------------------------------ Go arithmetic
\* Go's % truncates towards zero: the result has the sign of the dividend.
GoRem(a, n) ==
    IF a >= 0 THEN a % n ELSE 0 - ((0 - a) % n)

\* Go's / on int64 truncates towards zero.
GoDiv(a, n) ==
    IF a >= 0 THEN a \div n ELSE 0 - ((0 - a) \div n)

RECURSIVE SumSeq(_)
SumSeq(q) ==
    IF q = <<>> THEN 0 ELSE Head(q) + SumSeq(Tail(q))

\* ------------------------------------------------------------------ inputs
\* The offset lists of cycle length l: positive distances that add up to l.
OffsetLists(l) ==
    {o \in UNION {[1 .. n -> 1 .. l] : n \in 1 .. l} : SumSeq(o) = l}

\* The triples (start, lcd, offsets) NewSegmentedIndex is given:
\* 0 <= start < lcd, every offset > 0, the offsets add up to lcd.
Triples ==
    UNION {{[start |-> s, lcd |-> l, offsets |-> o] :
               s \in 0 .. (l - 1), o \in OffsetLists(l)} : l \in 1 .. MaxLcd}

\* What GetStripedOffsets returns: the elements of one cycle all lie inside
\* the cycle, so the last offset, which wraps around to the first element of
\* the next cycle, is longer than start.
IsStriped(s) ==
    s.offsets[Len(s.offsets)] > s.start

\* The names handed to XSharedSegmentedIndex, as sequences of characters:
\* the empty name and two others.
Names ==
    {<<>>, <<"a">>, <<"b">>}

EmptyName == <<>>

\* The execution contexts a caller may come with: two whose state carries a
\* valid segment (the first and the second half of a sequence 0,1/3,1), one
\* whose segment does not belong to its sequence, and one with no state.
Contexts == {"segA", "segB", "invalid", "absent"}

\* ------------------------------------------------------------------- state
VARIABLES
    heap,      \* the SegmentedIndex objects allocated so far, by address 1..
    data,      \* sharedSegmentedIndexes.data: name -> address
    mu,        \* sharedSegmentedIndexes.mu: [writer, readers]
    pc,        \* per goroutine: the statement it is about to execute
    loc,       \* per goroutine: the locals of its call
    last,      \* per object: the last call that completed on it (history)
    advLog,    \* per object: the Scaled values returned by the Next calls
               \* since the object was created or last repositioned (history)
    visited,   \* per object: the Unscaled values returned by those Next calls
               \* (history)
    created,   \* per name: how many objects get constructed for it (history)
    handed,    \* per name: the addresses get has returned for it (history)
    private    \* the addresses XSegmentedIndex has constructed (history)

vars == <<heap, data, mu, pc, loc, last, advLog, visited, created, handed, private>>

ZeroResult == [Scaled |-> 0, Unscaled |-> 0]
NoTuple == [start |-> 0, lcd |-> 0, offsets |-> <<>>]

\* The locals of a call, zero-initialised as Go does.
NewFrame ==
    [op |-> "", self |-> Nil, value |-> 0, gi |-> 0, i |-> 0,
     res |-> ZeroResult, entry |-> ZeroResult,
     ctx |-> "", name |-> "", array |-> Nil, ok |-> FALSE,
     tuple |-> NoTuple, err |-> ""]

NewSegmentedIndex(start, lcd, offsets) ==
    [start |-> start, lcd |-> lcd, offsets |-> offsets,
     mx |-> NoThread, scaled |-> 0, unscaled |-> 0]

SegmentedIndexResult(s) ==
    [Scaled |-> s.scaled, Unscaled |-> s.unscaled]

NewLast == [op |-> "New", entry |-> ZeroResult, res |-> ZeroResult]

\* ------------------------------------------------------- SegmentedIndex.mx
\* Faulty variant, for sensitivity analysis: the lock lets a second goroutine in (as RLock would).
MxFreeShared(s) ==
    TRUE

\* s.mx.Lock() returns only when nobody holds the mutex.
MxFree(s) ==
    s.mx = NoThread

\* -------------------------------------------------------------------- Next
\* Faulty variant, for sensitivity analysis: the offset of the next element instead of the current one.
NextUnscaledOffByOne(s) ==
    IF s.scaled = 0
    THEN s.unscaled + s.start + 1
    ELSE s.unscaled + s.offsets[GoRem(s.scaled, Len(s.offsets)) + 1]

\* Is the slice index of the else branch in range (it panics otherwise)?
NextIndexOk(s) ==
    s.scaled = 0 \/ GoRem(s.scaled - 1, Len(s.offsets)) >= 0

\* Lines 115-119: the unscaled index Next moves to.
NextUnscaled(s) ==
    IF s.scaled = 0
    THEN s.unscaled + s.start + 1
    ELSE s.unscaled + s.offsets[GoRem(s.scaled - 1, Len(s.offsets)) + 1]

\* The whole of Next, run without interruption.
AtomicNext(s) ==
    [s EXCEPT !.unscaled = NextUnscaled(s), !.scaled = s.scaled + 1]

\* -------------------------------------------------------------------- Prev
\* Faulty variant, for sensitivity analysis: Prev takes back the offset Next would add.
PrevUnscaledSameIndex(s) ==
    IF s.scaled = 1
    THEN s.unscaled - (s.start + 1)
    ELSE s.unscaled - s.offsets[GoRem(s.scaled - 1, Len(s.offsets)) + 1]

PrevIndexOk(s) ==
    s.scaled = 1 \/ GoRem(s.scaled - 2, Len(s.offsets)) >= 0

\* Lines 129-133: the unscaled index Prev moves to.
PrevUnscaled(s) ==
    IF s.scaled = 1
    THEN s.unscaled - (s.start + 1)
    ELSE s.unscaled - s.offsets[GoRem(s.scaled - 2, Len(s.offsets)) + 1]

\* The whole of Prev, run without interruption.
AtomicPrev(s) ==
    [s EXCEPT !.unscaled = PrevUnscaled(s), !.scaled = s.scaled - 1]

\* -------------------------------------------------------------------- GoTo
\* Faulty variant, for sensitivity analysis: the seed forgets that the indexes count from 1.
GoToSeedOfZeroBased(s, value) ==
    LET wholeCycles == GoDiv(value, s.lcd)
    IN  [s EXCEPT !.scaled = wholeCycles * Len(s.offsets),
                  !.unscaled = wholeCycles * s.lcd + s.start]

\* Faulty variant, for sensitivity analysis: the seed is added to the cursor
\* the call found (+= for =).
GoToSeedOfFromCursor(s, value) ==
    LET wholeCycles == GoDiv(value, s.lcd)
    IN  [s EXCEPT !.scaled = s.scaled + wholeCycles * Len(s.offsets),
                  !.unscaled = s.unscaled + wholeCycles * s.lcd + s.start + 1]

\* Lines 152-156: the approximate cursor after the whole cycles.
GoToSeedOf(s, value) ==
    LET wholeCycles == GoDiv(value, s.lcd)
    IN  [s EXCEPT !.scaled = wholeCycles * Len(s.offsets),
                  !.unscaled = wholeCycles * s.lcd + s.start + 1]

\* Faulty variant, for sensitivity analysis: the walk is not limited to the
\* partial cycle.
GoToLoopCondWholeValue(s, i, value) ==
    i < value

\* Line 161: the loop condition.
GoToLoopCond(s, i, value) ==
    i < GoRem(value, s.lcd)

\* Lines 162-163: the loop body (gi counts from 0, sequences from 1).
GoToStepOf(s, gi) ==
    [s EXCEPT !.scaled = s.scaled + 1,
              !.unscaled = s.unscaled + s.offsets[gi + 1]]

\* Faulty variant, for sensitivity analysis: only the first sub-case of the correction is kept.
GoToCorrectOfFirstOnly(s, gi) ==
    IF gi > 0
    THEN [s EXCEPT !.unscaled = s.unscaled - s.offsets[gi]]
    ELSE s

\* Faulty variant, for sensitivity analysis: the two sub-cases collapsed
\* into one that indexes from gi, which wraps to the first offset.
GoToCorrectOfCollapsed(s, gi) ==
    IF gi > 0 \/ s.scaled > 0
    THEN [s EXCEPT !.unscaled = s.unscaled - s.offsets[IF gi > 0 THEN gi ELSE 1]]
    ELSE s

\* Lines 166-173: the last offset added is taken back.
GoToCorrectOf(s, gi) ==
    IF gi > 0
    THEN [s EXCEPT !.unscaled = s.unscaled - s.offsets[gi]]
    ELSE IF s.scaled > 0
         THEN [s EXCEPT !.unscaled = s.unscaled - s.offsets[Len(s.offsets)]]
         ELSE s

\* Faulty variant, for sensitivity analysis: the reset clears start as well.
GoToResetOfStartToo(s) ==
    IF s.scaled = 0 THEN [s EXCEPT !.unscaled = 0, !.start = 0] ELSE s

\* Faulty variant, for sensitivity analysis: the seed start + 1 is left in unscaled.
GoToResetOfNothing(s) ==
    s

\* Lines 175-177.
GoToResetOf(s) ==
    IF s.scaled = 0 THEN [s EXCEPT !.unscaled = 0] ELSE s

\* The loop of lines 160-164 run to its end: the object and gi after it.
RECURSIVE GoToWalk(_, _, _, _)
GoToWalk(s, gi, i, value) ==
    IF GoToLoopCond(s, i, value)
    THEN GoToWalk(GoToStepOf(s, gi), gi + 1, i + s.offsets[gi + 1], value)
    ELSE [s |-> s, gi |-> gi]

\* The whole of GoTo, run without interruption.
AtomicGoTo(s, value) ==
    LET w == GoToWalk(GoToSeedOf(s, value), 0, s.start, value)
    IN  GoToResetOf(GoToCorrectOf(w.s, w.gi))

\* ---------------------------------------------------- navigation, stepwise
Self(t) == loc[t].self

\* Deferred s.mx.Unlock(), then the return: the call is recorded as the last
\* one completed on the object unless it is panicking.
Unlock(t, log) ==
    LET k == Self(t)
    IN  /\ heap' = [heap EXCEPT ![k].mx = NoThread]
        /\ IF loc[t].err = ""
           THEN /\ last' = [last EXCEPT ![k] = [op |-> loc[t].op,
                                                entry |-> loc[t].entry,
                                                res |-> loc[t].res]]
                /\ advLog' = [advLog EXCEPT ![k] = log]
                /\ visited' = [visited EXCEPT ![k] =
                                   IF loc[t].op = "Next"
                                   THEN visited[k] \cup {loc[t].res.Unscaled}
                                   ELSE {}]
           ELSE UNCHANGED <<last, advLog, visited>>
        /\ pc' = [pc EXCEPT ![t] = "idle"]
        /\ loc' = [loc EXCEPT ![t] = NewFrame]
        /\ UNCHANGED <<data, mu, created, handed, private>>

\* return SegmentedIndexResult{Scaled: s.scaled, Unscaled: s.unscaled}
Result(t, to) ==
    /\ loc' = [loc EXCEPT ![t].res = SegmentedIndexResult(heap[Self(t)])]
    /\ pc' = [pc EXCEPT ![t] = to]
    /\ UNCHANGED <<heap, data, mu, last, advLog, visited, created, handed, private>>

\* A goroutine blocked in Lock() has changed nothing yet, so the call and
\* the acquisition of the lock are one step.
Lock(t, k, frame, to) ==
    /\ pc[t] = "idle"
    /\ MxFree(heap[k])
    /\ heap' = [heap EXCEPT ![k].mx = t]
    /\ loc' = [loc EXCEPT ![t] = [frame EXCEPT !.self = k,
                      !.entry = SegmentedIndexResult(heap[k])]]
    /\ pc' = [pc EXCEPT ![t] = to]
    /\ UNCHANGED <<data, mu, last, advLog, visited, created, handed, private>>

\* Line 113.
NextLock(t) ==
    \E k \in DOMAIN heap :
        /\ heap[k].scaled < MaxScaled
        /\ Lock(t, k, [NewFrame EXCEPT !.op = "Next"], "N115")

\* Lines 115-119; an index out of range panics, and the deferred Unlock runs.
NextAddOffset(t) ==
    /\ pc[t] = "N115"
    /\ LET k == Self(t)
       IN  IF NextIndexOk(heap[k])
           THEN /\ heap' = [heap EXCEPT ![k].unscaled = NextUnscaled(heap[k])]
                /\ pc' = [pc EXCEPT ![t] = "N120"]
                /\ UNCHANGED loc
           ELSE /\ loc' = [loc EXCEPT ![t].err = "index out of range"]
                /\ pc' = [pc EXCEPT ![t] = "N122"]
                /\ UNCHANGED heap
    /\ UNCHANGED <<data, mu, last, advLog, visited, created, handed, private>>

\* Line 120.
NextIncr(t) ==
    /\ pc[t] = "N120"
    /\ heap' = [heap EXCEPT ![Self(t)].scaled = heap[Self(t)].scaled + 1]
    /\ pc' = [pc EXCEPT ![t] = "N121"]
    /\ UNCHANGED <<data, mu, loc, last, advLog, visited, created, handed, private>>

\* Line 121.
NextResult(t) ==
    /\ pc[t] = "N121"
    /\ Result(t, "N122")

\* Line 114, run at line 122.
NextUnlock(t) ==
    /\ pc[t] = "N122"
    /\ Unlock(t, Append(advLog[Self(t)], loc[t].res.Scaled))

\* Line 127. Calling Prev when s.scaled == 0 is undefined (line 125): the
\* callers do not, so the call goes ahead only on a cursor with scaled >= 1.
PrevLock(t) ==
    \E k \in DOMAIN heap :
        /\ heap[k].scaled >= 1
        /\ Lock(t, k, [NewFrame EXCEPT !.op = "Prev"], "P129")

\* Lines 129-133.
PrevSubOffset(t) ==
    /\ pc[t] = "P129"
    /\ LET k == Self(t)
       IN  IF PrevIndexOk(heap[k])
           THEN /\ heap' = [heap EXCEPT ![k].unscaled = PrevUnscaled(heap[k])]
                /\ pc' = [pc EXCEPT ![t] = "P134"]
                /\ UNCHANGED loc
           ELSE /\ loc' = [loc EXCEPT ![t].err = "index out of range"]
                /\ pc' = [pc EXCEPT ![t] = "P136"]
                /\ UNCHANGED heap
    /\ UNCHANGED <<data, mu, last, advLog, visited, created, handed, private>>

\* Line 134.
PrevDecr(t) ==
    /\ pc[t] = "P134"
    /\ heap' = [heap EXCEPT ![Self(t)].scaled = heap[Self(t)].scaled - 1]
    /\ pc' = [pc EXCEPT ![t] = "P135"]
    /\ UNCHANGED <<data, mu, loc, last, advLog, visited, created, handed, private>>

\* Line 135.
PrevResult(t) ==
    /\ pc[t] = "P135"
    /\ Result(t, "P136")

\* Line 128, run at line 136.
PrevUnlock(t) ==
    /\ pc[t] = "P136"
    /\ Unlock(t, <<>>)

\* Lines 145-147: gi starts at zero.
GoToLock(t) ==
    \E k \in DOMAIN heap, value \in 0 .. MaxValue :
        Lock(t, k, [NewFrame EXCEPT !.op = "GoTo", !.value = value], "G152")

\* Lines 152-160.
GoToSeed(t) ==
    /\ pc[t] = "G152"
    /\ LET k == Self(t)
       IN  /\ heap' = [heap EXCEPT ![k] = GoToSeedOf(heap[k], loc[t].value)]
           /\ loc' = [loc EXCEPT ![t].i = heap[k].start]
    /\ pc' = [pc EXCEPT ![t] = "G161"]
    /\ UNCHANGED <<data, mu, last, advLog, visited, created, handed, private>>

\* Lines 161-164, one iteration: the body, then gi, i = gi+1, i+s.offsets[gi].
GoToStep(t) ==
    /\ pc[t] = "G161"
    /\ LET k == Self(t)
           gi == loc[t].gi
       IN  /\ GoToLoopCond(heap[k], loc[t].i, loc[t].value)
           /\ heap' = [heap EXCEPT ![k] = GoToStepOf(heap[k], gi)]
           /\ loc' = [loc EXCEPT ![t].gi = gi + 1,
                                 ![t].i = loc[t].i + heap[k].offsets[gi + 1]]
    /\ UNCHANGED <<data, mu, pc, last, advLog, visited, created, handed, private>>

\* Line 161, the condition fails.
GoToLoopExit(t) ==
    /\ pc[t] = "G161"
    /\ ~GoToLoopCond(heap[Self(t)], loc[t].i, loc[t].value)
    /\ pc' = [pc EXCEPT ![t] = "G166"]
    /\ UNCHANGED <<heap, data, mu, loc, last, advLog, visited, created, handed, private>>

\* Lines 166-173.
GoToCorrect(t) ==
    /\ pc[t] = "G166"
    /\ heap' = [heap EXCEPT ![Self(t)] = GoToCorrectOf(heap[Self(t)], loc[t].gi)]
    /\ pc' = [pc EXCEPT ![t] = "G175"]
    /\ UNCHANGED <<data, mu, loc, last, advLog, visited, created, handed, private>>

\* Lines 175-177.
GoToReset(t) ==
    /\ pc[t] = "G175"
    /\ heap' = [heap EXCEPT ![Self(t)] = GoToResetOf(heap[Self(t)])]
    /\ pc' = [pc EXCEPT ![t] = "G179"]
    /\ UNCHANGED <<data, mu, loc, last, advLog, visited, created, handed, private>>

\* Line 179.
GoToResult(t) ==
    /\ pc[t] = "G179"
    /\ Result(t, "G180")

\* Line 146, run at line 180.
GoToUnlock(t) ==
    /\ pc[t] = "G180"
    /\ Unlock(t, <<>>)

\* -------------------------------------------------- sharedSegmentedIndexes
\* Faulty variant, for sensitivity analysis: the exclusive lock is not waited for.
MuCanLockAlways(m) ==
    TRUE

\* s.mu.Lock() returns only when there is no reader and no writer.
MuCanLock(m) ==
    m.writer = NoThread /\ m.readers = {}

\* Faulty variant, for sensitivity analysis: the shared lock is not waited for.
MuCanRLockAlways(m) ==
    TRUE

\* s.mu.RLock() returns only when there is no writer.
MuCanRLock(m) ==
    m.writer = NoThread

\* Faulty variant, for sensitivity analysis: the check of the name is left out.
NameIsEmptyNever(name) ==
    FALSE

\* Line 98: len(name) == 0.
NameIsEmpty(name) ==
    Len(name) = 0

\* array, ok := s.data[name]; an absent key gives (nil, false).
Lookup(d, name) ==
    [array |-> d[name], ok |-> d[name] # Nil]

\* Lines 58-62: lib.NewExecutionTuple and GetStripedOffsets on the caller's
\* state. With no state, state.Options dereferences nil; a segment outside
\* its sequence makes NewExecutionTuple return an error.
Translate(ctx) ==
    CASE ctx = "segA" -> [err |-> "", tuple |-> [start |-> 0, lcd |-> 3, offsets |-> <<2, 1>>]]
      [] ctx = "segB" -> [err |-> "", tuple |-> [start |-> 1, lcd |-> 3, offsets |-> <<3>>]]
      [] ctx = "invalid" -> [err |-> "invalid execution segment", tuple |-> NoTuple]
      [] ctx = "absent" -> [err |-> "nil pointer dereference", tuple |-> NoTuple]

SharedFrame(ctx, name) ==
    [NewFrame EXCEPT !.op = "XSharedSegmentedIndex", !.ctx = ctx, !.name = name]

\* Lines 95-100: the name is empty, the call panics before it touches the
\* cache or the state.
XSharedEmptyName(t) ==
    /\ pc[t] = "idle"
    /\ \E ctx \in Contexts, name \in Names :
           /\ NameIsEmpty(name)
           /\ loc' = [loc EXCEPT ![t] = [SharedFrame(ctx, name) EXCEPT
                          !.err = "empty name provided to SharedArray's constructor"]]
    /\ pc' = [pc EXCEPT ![t] = "panicked"]
    /\ UNCHANGED <<heap, data, mu, last, advLog, visited, created, handed, private>>

\* Lines 95-102 and 49: the name passes the check, get takes the read lock.
\* A goroutine blocked in RLock() has changed nothing yet.
GetRLock(t) ==
    /\ pc[t] = "idle"
    /\ MuCanRLock(mu)
    /\ \E ctx \in Contexts, name \in Names :
           /\ ~NameIsEmpty(name)
           /\ loc' = [loc EXCEPT ![t] = SharedFrame(ctx, name)]
    /\ mu' = [mu EXCEPT !.readers = mu.readers \cup {t}]
    /\ pc' = [pc EXCEPT ![t] = "L50"]
    /\ UNCHANGED <<heap, data, last, advLog, visited, created, handed, private>>

\* Line 50.
GetLookup(t) ==
    /\ pc[t] = "L50"
    /\ loc' = [loc EXCEPT ![t].array = Lookup(data, loc[t].name).array,
                          ![t].ok = Lookup(data, loc[t].name).ok]
    /\ pc' = [pc EXCEPT ![t] = "L51"]
    /\ UNCHANGED <<heap, data, mu, last, advLog, visited, created, handed, private>>

\* Lines 51-52.
GetRUnlock(t) ==
    /\ pc[t] = "L51"
    /\ mu' = [mu EXCEPT !.readers = mu.readers \ {t}]
    /\ pc' = [pc EXCEPT ![t] = IF loc[t].ok THEN "L69" ELSE "L53"]
    /\ UNCHANGED <<heap, data, loc, last, advLog, visited, created, handed, private>>

\* Faulty variant, for sensitivity analysis: the slow path goes on without
\* the exclusive lock.
GetLockForgotten(t) ==
    /\ pc[t] = "L53"
    /\ pc' = [pc EXCEPT ![t] = "L55"]
    /\ UNCHANGED <<heap, data, mu, loc, last, advLog, visited, created, handed, private>>

\* Line 53.
GetLock(t) ==
    /\ pc[t] = "L53"
    /\ MuCanLock(mu)
    /\ mu' = [mu EXCEPT !.writer = t]
    /\ pc' = [pc EXCEPT ![t] = "L55"]
    /\ UNCHANGED <<heap, data, loc, last, advLog, visited, created, handed, private>>

\* Faulty variant, for sensitivity analysis: the name is not looked up again under the exclusive lock.
GetRecheckSkipped(t) ==
    /\ pc[t] = "L55"
    /\ pc' = [pc EXCEPT ![t] = "L58"]
    /\ UNCHANGED <<heap, data, mu, loc, last, advLog, visited, created, handed, private>>

\* Lines 55-56: found now, the call returns through the deferred Unlock.
GetRecheck(t) ==
    /\ pc[t] = "L55"
    /\ loc' = [loc EXCEPT ![t].array = Lookup(data, loc[t].name).array,
                          ![t].ok = Lookup(data, loc[t].name).ok]
    /\ pc' = [pc EXCEPT ![t] = IF Lookup(data, loc[t].name).ok THEN "L54" ELSE "L58"]
    /\ UNCHANGED <<heap, data, mu, last, advLog, visited, created, handed, private>>

\* Lines 58-62: an error panics, and the deferred Unlock runs.
GetTranslate(t) ==
    /\ pc[t] = "L58"
    /\ loc' = [loc EXCEPT ![t].err = Translate(loc[t].ctx).err,
                          ![t].tuple = Translate(loc[t].ctx).tuple]
    /\ pc' = [pc EXCEPT ![t] = IF Translate(loc[t].ctx).err = "" THEN "L64" ELSE "L54"]
    /\ UNCHANGED <<heap, data, mu, last, advLog, visited, created, handed, private>>

\* Line 64: a new object, at the next address.
GetConstruct(t) ==
    /\ pc[t] = "L64"
    /\ heap' = Append(heap, NewSegmentedIndex(loc[t].tuple.start, loc[t].tuple.lcd,
                                              loc[t].tuple.offsets))
    /\ last' = Append(last, NewLast)
    /\ advLog' = Append(advLog, <<>>)
    /\ visited' = Append(visited, {})
    /\ loc' = [loc EXCEPT ![t].array = Len(heap) + 1]
    /\ created' = [created EXCEPT ![loc[t].name] = created[loc[t].name] + 1]
    /\ pc' = [pc EXCEPT ![t] = "L65"]
    /\ UNCHANGED <<data, mu, handed, private>>

\* Line 65.
GetStore(t) ==
    /\ pc[t] = "L65"
    /\ data' = [data EXCEPT ![loc[t].name] = loc[t].array]
    /\ pc' = [pc EXCEPT ![t] = "L54"]
    /\ UNCHANGED <<heap, mu, loc, last, advLog, visited, created, handed, private>>

\* Faulty variant, for sensitivity analysis: the Unlock is not deferred, so a
\* panic leaves get without running it.
GetUnlockNotDeferred(t) ==
    /\ pc[t] = "L54"
    /\ mu' = IF loc[t].err = "" THEN [mu EXCEPT !.writer = NoThread] ELSE mu
    /\ pc' = [pc EXCEPT ![t] = IF loc[t].err = "" THEN "L69" ELSE "panicked"]
    /\ UNCHANGED <<heap, data, loc, last, advLog, visited, created, handed, private>>

\* Line 54, run when get returns or panics.
GetUnlock(t) ==
    /\ pc[t] = "L54"
    /\ mu' = [mu EXCEPT !.writer = NoThread]
    /\ pc' = [pc EXCEPT ![t] = IF loc[t].err = "" THEN "L69" ELSE "panicked"]
    /\ UNCHANGED <<heap, data, loc, last, advLog, visited, created, handed, private>>

\* Lines 69 and 102: the caller receives array.
GetReturn(t) ==
    /\ pc[t] = "L69"
    /\ handed' = [handed EXCEPT ![loc[t].name] = handed[loc[t].name] \cup {loc[t].array}]
    /\ pc' = [pc EXCEPT ![t] = "idle"]
    /\ loc' = [loc EXCEPT ![t] = NewFrame]
    /\ UNCHANGED <<heap, data, mu, last, advLog, visited, created, private>>

\* Lines 60 and 99: the panic reaches the caller, which goes on without an
\* object.
Panicked(t) ==
    /\ pc[t] = "panicked"
    /\ pc' = [pc EXCEPT ![t] = "idle"]
    /\ loc' = [loc EXCEPT ![t] = NewFrame]
    /\ UNCHANGED <<heap, data, mu, last, advLog, visited, created, handed, private>>

\* ------------------------------------------------------- XSegmentedIndex
\* Lines 81-88: the descriptor of the caller's state is translated; an
\* error panics. Nothing is locked and the cache is not consulted.
XSegmentedIndexTranslate(t) ==
    /\ pc[t] = "idle"
    /\ \E ctx \in Contexts :
           loc' = [loc EXCEPT ![t] = [NewFrame EXCEPT
                       !.op = "XSegmentedIndex", !.ctx = ctx,
                       !.err = Translate(ctx).err, !.tuple = Translate(ctx).tuple]]
    /\ pc' = [pc EXCEPT ![t] = IF loc'[t].err = "" THEN "X91" ELSE "panicked"]
    /\ UNCHANGED <<heap, data, mu, last, advLog, visited, created, handed, private>>

\* Line 91: a new object, at the next address.
XSegmentedIndexConstruct(t) ==
    /\ pc[t] = "X91"
    /\ heap' = Append(heap, NewSegmentedIndex(loc[t].tuple.start, loc[t].tuple.lcd,
                                              loc[t].tuple.offsets))
    /\ last' = Append(last, NewLast)
    /\ advLog' = Append(advLog, <<>>)
    /\ visited' = Append(visited, {})
    /\ private' = private \cup {Len(heap) + 1}
    /\ loc' = [loc EXCEPT ![t].array = Len(heap) + 1]
    /\ pc' = [pc EXCEPT ![t] = "X92"]
    /\ UNCHANGED <<data, mu, created, handed>>

\* Line 91, the return: the caller receives the object.
XSegmentedIndexReturn(t) ==
    /\ pc[t] = "X92"
    /\ pc' = [pc EXCEPT ![t] = "idle"]
    /\ loc' = [loc EXCEPT ![t] = NewFrame]
    /\ UNCHANGED <<heap, data, mu, last, advLog, visited, created, handed, private>>

XSegmentedIndex(t) ==
    \/ XSegmentedIndexTranslate(t)
    \/ XSegmentedIndexConstruct(t)
    \/ XSegmentedIndexReturn(t)

\* ------------------------------------------------------------ specifications
\* New(): an empty cache; no goroutine has called anything.
InitRest ==
    /\ data = [n \in Names |-> Nil]
    /\ mu = [writer |-> NoThread, readers |-> {}]
    /\ pc = [t \in Threads |-> "idle"]
    /\ loc = [t \in Threads |-> NewFrame]
    /\ created = [n \in Names |-> 0]
    /\ handed = [n \in Names |-> {}]
    /\ private = {}

\* One SegmentedIndex, just constructed from any triple, shared by the
\* goroutines; the cache is empty.
InitNav ==
    /\ \E tr \in Triples :
           heap = <<NewSegmentedIndex(tr.start, tr.lcd, tr.offsets)>>
    /\ last = <<NewLast>>
    /\ advLog = <<(<<>>)>>
    /\ visited = <<{}>>
    /\ InitRest

NextCall(t) ==
    \/ NextLock(t)
    \/ NextAddOffset(t)
    \/ NextIncr(t)
    \/ NextResult(t)
    \/ NextUnlock(t)

PrevCall(t) ==
    \/ PrevLock(t)
    \/ PrevSubOffset(t)
    \/ PrevDecr(t)
    \/ PrevResult(t)
    \/ PrevUnlock(t)

GoToCall(t) ==
    \/ GoToLock(t)
    \/ GoToSeed(t)
    \/ GoToStep(t)
    \/ GoToLoopExit(t)
    \/ GoToCorrect(t)
    \/ GoToReset(t)
    \/ GoToResult(t)
    \/ GoToUnlock(t)

\* Goroutines calling Next, Prev and GoTo on the shared object.
StepNav ==
    \E t \in Threads : NextCall(t) \/ PrevCall(t) \/ GoToCall(t)

SpecNav == InitNav /\ [][StepNav]_vars

\* Goroutines calling nothing but Next.
StepAdv ==
    \E t \in Threads : NextCall(t)

SpecAdv == InitNav /\ [][StepAdv]_vars

\* The module as New() returns it: no object yet.
InitReg ==
    /\ heap = <<>>
    /\ last = <<>>
    /\ advLog = <<>>
    /\ visited = <<>>
    /\ InitRest

XSharedSegmentedIndex(t) ==
    \/ XSharedEmptyName(t)
    \/ GetRLock(t)
    \/ GetLookup(t)
    \/ GetRUnlock(t)
    \/ GetLock(t)
    \/ GetRecheck(t)
    \/ GetTranslate(t)
    \/ GetConstruct(t)
    \/ GetStore(t)
    \/ GetUnlock(t)
    \/ GetReturn(t)
    \/ Panicked(t)

\* Goroutines calling XSharedSegmentedIndex with any context and name.
StepReg ==
    \E t \in Threads : XSharedSegmentedIndex(t)

SpecReg == InitReg /\ [][StepReg]_vars

\* ------------------------------------------------------ reference notions
\* The object as it was constructed: the cursor before any call.
Fresh(s) ==
    [s EXCEPT !.scaled = 0, !.unscaled = 0]

\* The object with its cursor set to the pair c.
At(s, c) ==
    [s EXCEPT !.scaled = c.Scaled, !.unscaled = c.Unscaled]

\* Next called again and again until the next element would exceed value.
RECURSIVE LinearScan(_, _)
LinearScan(s, value) ==
    IF AtomicNext(s).unscaled > value
    THEN s
    ELSE LinearScan(AtomicNext(s), value)

\* The position in the original sequence of the k-th element of the
\* partition: start + 1 + offsets[j mod len] for j = 0 .. k-2, and 0 for k = 0.
RECURSIVE Position(_, _)
Position(s, k) ==
    IF k <= 0 THEN 0
    ELSE IF k = 1 THEN s.start + 1
    ELSE Position(s, k - 1) + s.offsets[((k - 2) % Len(s.offsets)) + 1]

\* The call of frame f run without interruption on the object s.
AtomicCall(f, s) ==
    CASE f.op = "Next" -> AtomicNext(s)
      [] f.op = "Prev" -> AtomicPrev(s)
      [] f.op = "GoTo" -> AtomicGoTo(s, f.value)

\* The goroutines that are inside a navigation call on object k.
Inside(k) ==
    {t \in Threads : pc[t] # "idle" /\ loc[t].op \in {"Next", "Prev", "GoTo"}
                     /\ Self(t) = k}

\* The goroutine has built the result it returns and still holds the lock.
Returning(t, op, at) ==
    pc[t] = at /\ loc[t].op = op /\ loc[t].err = ""

Cur(t) == SegmentedIndexResult(heap[Self(t)])

\* ------------------------------------------------------------------ claims
\* C1 as stated: for every triple with 0 <= start < lcd, offsets > 0 and
\* sum of offsets = lcd, and every value >= 0, GoTo(value) returns and leaves
\* the cursor a linear scan with Next from the initial state stops at.
C1_GoToIsLinearScan_AnyTriple ==
    \A t \in Threads :
        Returning(t, "GoTo", "G180") =>
            /\ loc[t].res =
                 SegmentedIndexResult(LinearScan(Fresh(heap[Self(t)]), loc[t].value))
            /\ Cur(t) = loc[t].res

\* C1 amended: the same for the triples GetStripedOffsets returns, whose
\* last offset exceeds start (the elements of a cycle lie inside the cycle).
C1_GoToIsLinearScan ==
    \A t \in Threads :
        (Returning(t, "GoTo", "G180") /\ IsStriped(heap[Self(t)])) =>
            /\ loc[t].res =
                 SegmentedIndexResult(LinearScan(Fresh(heap[Self(t)]), loc[t].value))
            /\ Cur(t) = loc[t].res

\* C1 witness: start 0, offsets [2,1], lcd 3: GoTo(4) is about to return
\* (3,4), after one whole cycle and one step of the partial walk.
C1_Witness ==
    \E t \in Threads :
        /\ Returning(t, "GoTo", "G180")
        /\ heap[Self(t)].start = 0
        /\ heap[Self(t)].offsets = <<2, 1>>
        /\ loc[t].value = 4
        /\ loc[t].gi = 1
        /\ loc[t].res = [Scaled |-> 3, Unscaled |-> 4]

\* C2: with nothing but Next called on the object, by whatever goroutines,
\* the Scaled values returned are 1, 2, ..., N in the order the calls take
\* effect: the j-th value returned is j, so there is no duplicate and no gap,
\* and the call about to return holds the next value.
C2_NextCountsGapFree ==
    \A k \in DOMAIN heap :
        /\ \A j \in 1 .. Len(advLog[k]) : advLog[k][j] = j
        /\ \A t \in Inside(k) :
               Returning(t, "Next", "N122") =>
                   loc[t].res.Scaled = Len(advLog[k]) + 1

\* C2 witness: three calls have returned, the last one made from scaled = 2,
\* and both goroutines are inside Next or about to be: one returning the
\* fourth value.
C2_Witness ==
    /\ Len(advLog[1]) = 3
    /\ Returning(1, "Next", "N122")
    /\ loc[1].res.Scaled = 4

\* C4: whenever no navigation call is executing on an object, scaled >= 0 and
\* unscaled is the position of the scaled-th element of the partition.
C4_CursorIsPosition ==
    \A k \in DOMAIN heap :
        heap[k].mx = NoThread =>
            /\ heap[k].scaled >= 0
            /\ heap[k].unscaled = Position(heap[k], heap[k].scaled)

\* C4 witness: a Prev has just completed on a cursor a GoTo had set, in the
\* second cycle or later.
C4_Witness ==
    /\ heap[1].mx = NoThread
    /\ last[1].op = "Prev"
    /\ heap[1].scaled > Len(heap[1].offsets)
    /\ Len(heap[1].offsets) >= 2
    /\ heap[1].start >= 1

\* C5: a Prev that takes effect right after a Next returns, and leaves, the
\* pair the cursor held before that Next.
C5_NextThenPrev ==
    \A t \in Threads :
        (Returning(t, "Prev", "P136") /\ last[Self(t)].op = "Next") =>
            /\ loc[t].res = last[Self(t)].entry
            /\ Cur(t) = last[Self(t)].entry

\* C5 witness: the Next was made on the initial cursor (0, 0) of an object
\* whose first element is not at position 1.
C5_Witness ==
    \E t \in Threads :
        /\ Returning(t, "Prev", "P136")
        /\ last[Self(t)].op = "Next"
        /\ last[Self(t)].entry = ZeroResult
        /\ heap[Self(t)].start >= 1
        /\ loc[t].res = ZeroResult

\* C6: a Next that takes effect right after a Prev (made with scaled >= 1)
\* returns, and leaves, the pair the cursor held before that Prev.
C6_PrevThenNext ==
    \A t \in Threads :
        (Returning(t, "Next", "N122") /\ last[Self(t)].op = "Prev") =>
            /\ last[Self(t)].entry.Scaled >= 1
            /\ loc[t].res = last[Self(t)].entry
            /\ Cur(t) = last[Self(t)].entry

\* C6 witness: the Prev went back over the end of a cycle of two elements.
C6_Witness ==
    \E t \in Threads :
        /\ Returning(t, "Next", "N122")
        /\ last[Self(t)].op = "Prev"
        /\ last[Self(t)].entry.Scaled = 3
        /\ Len(heap[Self(t)].offsets) = 2

\* C7: GoTo(value) with 0 <= value <= start returns and leaves (0, 0).
C7_GoToBeforeFirst ==
    \A t \in Threads :
        (Returning(t, "GoTo", "G180") /\ loc[t].value <= heap[Self(t)].start) =>
            /\ loc[t].res = ZeroResult
            /\ Cur(t) = ZeroResult

\* C7 witness: GoTo(start) with start >= 1, called on a cursor that had
\* moved, is about to return.
C7_Witness ==
    \E t \in Threads :
        /\ Returning(t, "GoTo", "G180")
        /\ loc[t].value = heap[Self(t)].start
        /\ loc[t].value >= 1
        /\ loc[t].entry.Scaled >= 2

\* C10: the navigation calls on an object are atomic. At most one goroutine
\* is inside a call on it and holds its lock; the call started from the
\* cursor the last completed call left (never from an intermediate one); the
\* pair it returns, and the cursor it leaves, are those of the call run
\* without interruption from there; and with no call inside, the cursor is
\* the one the last completed call returned.
C10_NavigationAtomic ==
    \A k \in DOMAIN heap :
        /\ Cardinality(Inside(k)) <= 1
        /\ Inside(k) = {} => SegmentedIndexResult(heap[k]) = last[k].res
        /\ \A t \in Inside(k) :
               /\ heap[k].mx = t
               /\ loc[t].entry = last[k].res
               /\ (pc[t] \in {"N122", "P136", "G180"} /\ loc[t].err = "") =>
                      /\ loc[t].res = SegmentedIndexResult(
                                          AtomicCall(loc[t], At(heap[k], loc[t].entry)))
                      /\ Cur(t) = loc[t].res

\* C10 witness: a GoTo is at its overshoot correction, the cursor holding a
\* value no call returns, while the other goroutine is free to call.
C10_Witness ==
    /\ pc[1] = "G166"
    /\ pc[2] = "idle"
    /\ loc[1].gi >= 1
    /\ loc[1].value >= heap[1].lcd
    /\ heap[1].unscaled # AtomicGoTo(heap[1], loc[1].value).unscaled

\* C3: whatever the interleaving of the calls that ask for a name, at most
\* one object is constructed for it, every call that returns for the name
\* returns that object, the one the cache holds, and by then exactly one has
\* been constructed.
C3_OneInstancePerName ==
    /\ \A n \in Names :
           /\ created[n] <= 1
           /\ Cardinality(handed[n]) <= 1
           /\ handed[n] # {} => handed[n] = {data[n]}
    /\ \A t \in Threads :
           pc[t] = "L69" =>
               /\ loc[t].array # Nil
               /\ loc[t].array = data[loc[t].name]
               /\ created[loc[t].name] = 1

\* C3 witness: two goroutines asked for the same absent name at the same
\* time; the first has built and stored the object and still holds the
\* exclusive lock, the second missed the name under the read lock and waits.
C3_Witness ==
    /\ pc[1] = "L54" /\ loc[1].err = "" /\ loc[1].tuple # NoTuple
    /\ pc[2] = "L53" /\ ~loc[2].ok
    /\ loc[1].name = loc[2].name
    /\ data[loc[1].name] = loc[1].array

\* C8: a call with the empty name panics with the empty-name error whatever
\* its context; the step changes neither the cache, nor the objects, nor the
\* lock; no goroutine ever translates a descriptor for the empty name, and
\* the cache never holds an entry under it.
C8_EmptyNameRejected ==
    /\ [](/\ data[EmptyName] = Nil
          /\ created[EmptyName] = 0
          /\ \A t \in Threads :
                 (pc[t] # "idle" /\ loc[t].op = "XSharedSegmentedIndex"
                      /\ loc[t].name = EmptyName) =>
                     /\ pc[t] = "panicked"
                     /\ loc[t].err = "empty name provided to SharedArray's constructor"
                     /\ loc[t].tuple = NoTuple)
    /\ [][\A t \in Threads :
              (pc[t] = "idle" /\ pc'[t] # "idle" /\ loc'[t].name = EmptyName) =>
                  /\ pc'[t] = "panicked"
                  /\ UNCHANGED <<heap, data, mu, created, handed, private>>]_vars

\* C8 witness: the empty name came with a context that has no state, while
\* the cache already holds an object.
C8_Witness ==
    /\ pc[1] = "panicked"
    /\ loc[1].name = EmptyName
    /\ loc[1].ctx = "absent"
    /\ loc[1].err = "empty name provided to SharedArray's constructor"
    /\ \E n \in Names : data[n] # Nil

\* C9: once the cache maps a name to an object, every later state maps it to
\* the same object: no step replaces or removes an entry.
C9_EntriesAreStable ==
    [][\A n \in Names : data[n] # Nil => data'[n] = data[n]]_vars

\* C9 witness: two names are cached, and a caller whose context carries the
\* other segment is handed the object first built for the name.
C9_Witness ==
    /\ Cardinality({n \in Names : data[n] # Nil}) >= 2
    /\ pc[2] = "L69"
    /\ loc[2].ctx = "segB"
    /\ heap[loc[2].array].start = Translate("segA").tuple.start
    /\ handed[loc[2].name] # {}

\* The locks goroutine t holds: the cache's lock, shared or exclusive, and
\* the locks of the objects.
HoldsShared(t) == t \in mu.readers
HoldsExclusive(t) == mu.writer = t
HoldsObject(t) == \E k \in DOMAIN heap : heap[k].mx = t

\* C11 as stated: at the moment get translates the descriptor (line 58), the
\* goroutine holds neither the shared nor the exclusive lock of the cache.
C11_TranslatesUnlocked ==
    \A t \in Threads :
        pc[t] = "L58" => ~HoldsShared(t) /\ ~HoldsExclusive(t)

\* C11 amended: at that moment the goroutine holds the exclusive lock of the
\* cache, taken at line 53 and released by the deferred Unlock, and neither
\* the shared lock nor the lock of any object.
C11_TranslatesUnderExclusive ==
    \A t \in Threads :
        pc[t] = "L58" =>
            /\ HoldsExclusive(t)
            /\ ~HoldsShared(t)
            /\ ~HoldsObject(t)
            /\ mu.readers = {}

\* C11 witness: a goroutine is about to translate while the other one, having
\* missed the same name, waits for the exclusive lock.
C11_Witness ==
    /\ pc[1] = "L58"
    /\ mu.writer = 1
    /\ pc[2] = "L53"
    /\ loc[1].name = loc[2].name

\* The call of goroutine t has panicked at line 58 or 60: the translation of
\* its descriptor failed.
TranslationFailed(t) ==
    /\ loc[t].op = "XSharedSegmentedIndex"
    /\ loc[t].err \in {Translate(c).err : c \in Contexts} \ {""}

\* C12: a get whose translation fails holds no object and no tuple; while it
\* still holds the exclusive lock the cache has no entry for its name and no
\* object was constructed for it; its steps from the failure to the caller
\* change neither the cache nor the objects; and once the panic has left
\* get, the goroutine holds no lock of the cache, so other calls go on.
C12_FailedTranslationLeavesNothing ==
    /\ [](\A t \in Threads :
              TranslationFailed(t) =>
                  /\ pc[t] \in {"L54", "panicked"}
                  /\ loc[t].array = Nil
                  /\ loc[t].tuple = NoTuple
                  /\ pc[t] = "L54" =>
                         /\ HoldsExclusive(t)
                         /\ data[loc[t].name] = Nil
                         /\ created[loc[t].name] = 0
                  /\ pc[t] = "panicked" =>
                         ~HoldsExclusive(t) /\ ~HoldsShared(t))
    /\ [][\A t \in Threads :
              (TranslationFailed(t)' /\ pc'[t] # pc[t]) =>
                  /\ data' = data
                  /\ heap' = heap
                  /\ created' = created
                  /\ handed' = handed]_vars

\* C12 witness: the call of goroutine 1 failed for a name, and before its
\* panic has reached its caller goroutine 2, with a valid context, has
\* created and stored the object for that very name.
C12_Witness ==
    /\ pc[1] = "panicked"
    /\ TranslationFailed(1)
    /\ loc[1].ctx = "invalid"
    /\ pc[2] = "L69"
    /\ loc[2].name = loc[1].name
    /\ loc[2].tuple # NoTuple
    /\ data[loc[1].name] = loc[2].array

\* ------------------------------------------------- segments of one cycle
\* The ways to divide the positions 0 .. l-1 of a cycle among at most
\* MaxSegments segments, every segment getting a position: f[p] is the
\* segment of position p, the segments numbered in the order of their first
\* positions.
Divisions(l) ==
    {f \in [0 .. (l - 1) -> 1 .. MaxSegments] :
        \A p \in 0 .. (l - 1) :
            f[p] <= 1 + Cardinality({f[q] : q \in 0 .. (p - 1)})}

\* The j-th smallest member of the set of positions P.
Nth(P, j) ==
    CHOOSE p \in P : Cardinality({q \in P : q < p}) = j - 1

\* The striped offsets of the segment that owns the positions P of a cycle
\* of length l: the first position, the distances between the positions, and
\* last the distance from the last position to the first one of the next
\* cycle.
StripedOffsets(P, l) ==
    LET n == Cardinality(P)
    IN  [start |-> Nth(P, 1),
         lcd |-> l,
         offsets |-> [j \in 1 .. n |->
                         IF j < n THEN Nth(P, j + 1) - Nth(P, j)
                                  ELSE l - Nth(P, n) + Nth(P, 1)]]

\* One object per segment of a divided cycle, just constructed.
InitPart ==
    /\ \E l \in 1 .. MaxLcd : \E f \in Divisions(l) :
           LET m == Cardinality({f[p] : p \in 0 .. (l - 1)})
               tr(c) == StripedOffsets({p \in 0 .. (l - 1) : f[p] = c}, l)
           IN  /\ heap = [c \in 1 .. m |->
                            NewSegmentedIndex(tr(c).start, tr(c).lcd, tr(c).offsets)]
               /\ last = [c \in 1 .. m |-> NewLast]
               /\ advLog = [c \in 1 .. m |-> <<>>]
               /\ visited = [c \in 1 .. m |-> {}]
    /\ InitRest

\* Goroutines calling Next on the objects of the segments.
SpecPart == InitPart /\ [][StepAdv]_vars

\* The position the next Next on object k returns, seen from the cursor the
\* last completed call left.
Frontier(k) ==
    AtomicNext(At(heap[k], last[k].res)).unscaled

\* The smallest of the sequence of numbers q.
RECURSIVE MinOf(_)
MinOf(q) ==
    IF Len(q) = 1 THEN q[1]
    ELSE IF q[1] <= MinOf(Tail(q)) THEN q[1] ELSE MinOf(Tail(q))

\* C13: with one object per segment of a divided cycle and nothing but Next
\* called, the sets of positions the objects have returned are pairwise
\* disjoint, no object returns a position twice, and every position of the
\* original sequence below the next position of every object has been
\* returned: so once every object has passed k cycles, the union of the sets
\* restricted to 1 .. k*lcd is exactly that range.
C13_SegmentsPartition ==
    /\ \A j, k \in DOMAIN heap : j # k => visited[j] \cap visited[k] = {}
    /\ \A k \in DOMAIN heap : Cardinality(visited[k]) = Len(advLog[k])
    /\ \A k \in DOMAIN heap : \A p \in visited[k] : p >= 1
    /\ LET reached == MinOf([k \in DOMAIN heap |-> Frontier(k)]) - 1
           cycles == reached \div heap[1].lcd
       IN  /\ \A p \in 1 .. reached : \E k \in DOMAIN heap : p \in visited[k]
           /\ {p \in UNION {visited[k] : k \in DOMAIN heap} :
                   p <= cycles * heap[1].lcd} = 1 .. (cycles * heap[1].lcd)

\* C13 witness: a cycle of three positions divided between two segments, one
\* of them with two positions, and both objects past the second cycle.
C13_Witness ==
    /\ Len(heap) = 2
    /\ heap[1].lcd = 3
    /\ Len(heap[1].offsets) = 2
    /\ heap[1].offsets[1] # heap[1].offsets[2]
    /\ \A p \in 1 .. 6 : p \in visited[1] \cup visited[2]
    /\ visited[1] \cap visited[2] = {}

\* C15: in GoTo, gi never exceeds len(offsets), so the loop runs at most
\* len(offsets) times; whenever the loop goes on, offsets[gi] is in range;
\* and in the correction offsets[gi-1] is in range.
C15_GoToIndexesInRange ==
    \A t \in Threads :
        (pc[t] # "idle" /\ loc[t].op = "GoTo") =>
            LET n == Len(heap[Self(t)].offsets)
            IN  /\ loc[t].gi \in 0 .. n
                /\ (pc[t] = "G161"
                      /\ GoToLoopCond(heap[Self(t)], loc[t].i, loc[t].value)) =>
                       loc[t].gi \in 0 .. (n - 1)
                /\ (pc[t] = "G166" /\ loc[t].gi > 0) =>
                       (loc[t].gi - 1) \in 0 .. (n - 1)

\* C15 witness: the loop has run once for every offset of a list of two or
\* more, after at least one whole cycle.
C15_Witness ==
    \E t \in Threads :
        /\ pc[t] = "G166"
        /\ loc[t].gi = Len(heap[Self(t)].offsets)
        /\ loc[t].gi >= 2
        /\ loc[t].value >= heap[Self(t)].lcd

\* C16: GoTo(value) with value >= lcd and value mod lcd <= start, so in
\* particular value = k * lcd with k >= 1, takes no step of the walk and
\* returns scaled = k * len(offsets) and unscaled = k * lcd + start + 1 -
\* offsets[last], for k = value div lcd: the position of element number
\* k * len(offsets).
C16_GoToOnCycleBoundary ==
    \A t \in Threads :
        LET s == heap[Self(t)]
            k == loc[t].value \div s.lcd
        IN  (Returning(t, "GoTo", "G180") /\ loc[t].value >= s.lcd
                 /\ loc[t].value % s.lcd <= s.start) =>
                /\ loc[t].gi = 0
                /\ loc[t].res.Scaled = k * Len(s.offsets)
                /\ loc[t].res.Unscaled =
                       k * s.lcd + s.start + 1 - s.offsets[Len(s.offsets)]
                /\ loc[t].res.Unscaled = Position(s, k * Len(s.offsets))
                /\ Cur(t) = loc[t].res

\* C16 witness: GoTo(2 * lcd) on a striped object whose first and last
\* offsets differ is about to return.
C16_Witness ==
    \E t \in Threads :
        /\ Returning(t, "GoTo", "G180")
        /\ loc[t].value = 2 * heap[Self(t)].lcd
        /\ IsStriped(heap[Self(t)])
        /\ heap[Self(t)].offsets[1] # heap[Self(t)].offsets[Len(heap[Self(t)].offsets)]
        /\ loc[t].res.Scaled = 2 * Len(heap[Self(t)].offsets)

\* C17: the pair GoTo(value) returns and leaves depends on value and the
\* triple alone: whatever cursor the call started from, it is the pair of
\* GoTo(value) on the object as constructed.
C17_GoToIgnoresCursor ==
    \A t \in Threads :
        Returning(t, "GoTo", "G180") =>
            /\ loc[t].res =
                 SegmentedIndexResult(AtomicGoTo(Fresh(heap[Self(t)]), loc[t].value))
            /\ Cur(t) = loc[t].res

\* C17 witness: a GoTo that started from the cursor another GoTo had left,
\* beyond its own target, is about to return a different pair.
C17_Witness ==
    \E t \in Threads :
        /\ Returning(t, "GoTo", "G180")
        /\ last[Self(t)].op = "GoTo"
        /\ loc[t].entry.Scaled > loc[t].res.Scaled
        /\ loc[t].res.Scaled >= 1

\* The call of goroutine t has run line 58 for its name: it holds the tuple,
\* or the error the translation gave.
Translated(t) ==
    /\ loc[t].op = "XSharedSegmentedIndex"
    /\ loc[t].tuple # NoTuple \/ TranslationFailed(t)

\* C19 as stated: the translations performed for a name never exceed one.
\* The calls in progress that have translated for the name are some of them.
C19_OneTranslationPerName ==
    \A n \in Names :
        created[n] + Cardinality({t \in Threads :
                         Translated(t) /\ loc[t].name = n /\ pc[t] \in {"L64", "L54", "panicked"}
                             /\ (pc[t] = "L54" => loc[t].err # "")}) <= 1

\* C19 amended: the translations that succeed for a name never exceed one
\* (failed ones are repeated by the next call for the name); a translation is
\* made only under the exclusive lock, for a name the cache does not hold and
\* for which nothing was constructed; a call that found the name, under the
\* read lock or on the re-check, has translated nothing.
C19_OneSuccessfulTranslationPerName ==
    /\ \A n \in Names :
           created[n] + Cardinality({t \in Threads :
                            pc[t] = "L64" /\ loc[t].name = n}) <= 1
    /\ \A t \in Threads :
           /\ pc[t] = "L58" =>
                  /\ HoldsExclusive(t)
                  /\ ~loc[t].ok
                  /\ data[loc[t].name] = Nil
                  /\ created[loc[t].name] = 0
           /\ (loc[t].op = "XSharedSegmentedIndex" /\ loc[t].ok) =>
                  /\ ~Translated(t)
                  /\ pc[t] \in {"L51", "L54", "L69"}

\* C19 witness: goroutine 2 found on the re-check the name goroutine 1 has
\* just translated and stored, and has translated nothing.
C19_Witness ==
    /\ pc[1] = "L69" /\ loc[1].tuple # NoTuple
    /\ pc[2] = "L54" /\ loc[2].ok /\ loc[2].tuple = NoTuple
    /\ loc[1].name = loc[2].name
    /\ created[loc[1].name] = 1

\* C20: the cache's map is written only at line 65 by the goroutine holding
\* the exclusive lock, with no reader inside; a goroutine looking a name up
\* holds the shared lock (line 50) or the exclusive one (line 55); the
\* exclusive holder excludes every other holder; the exclusive lock is taken
\* only by a call whose lookup missed, and a call whose name is present at
\* the lookup under the read lock returns without taking it.
C20_MapAccessIsLocked ==
    /\ [](/\ mu.writer # NoThread => mu.readers = {}
          /\ \A t \in Threads :
                 /\ pc[t] \in {"L50", "L51"} => HoldsShared(t)
                 /\ pc[t] \in {"L55", "L58", "L64", "L65", "L54"} =>
                        HoldsExclusive(t) /\ ~HoldsShared(t)
                 /\ pc[t] \in {"L53", "L69", "idle", "panicked"} =>
                        ~HoldsExclusive(t) /\ ~HoldsShared(t)
                 /\ pc[t] = "L51" => loc[t].ok = (data[loc[t].name] # Nil)
                 /\ pc[t] = "L53" => ~loc[t].ok)
    /\ [][/\ data' # data =>
                 \E t \in Threads :
                     /\ pc[t] = "L65" /\ HoldsExclusive(t) /\ mu.readers = {}
                     /\ \A u \in Threads \ {t} : pc[u] \in {"idle", "L53", "L69", "panicked"}
          /\ \A t \in Threads :
                 /\ (HoldsExclusive(t)' /\ ~HoldsExclusive(t)) =>
                        pc[t] = "L53" /\ ~loc[t].ok
                 /\ (pc[t] = "L50" /\ pc'[t] # pc[t] /\ data[loc[t].name] # Nil) =>
                        pc'[t] = "L51" /\ loc'[t].ok
                 /\ (pc[t] = "L51" /\ pc'[t] # pc[t] /\ loc[t].ok) =>
                        pc'[t] = "L69" /\ ~HoldsExclusive(t)'
                 /\ (pc[t] = "L69" /\ pc'[t] # pc[t]) =>
                        pc'[t] = "idle" /\ ~HoldsExclusive(t)']_vars

\* C20 witness: two goroutines are inside the read lock at once, one of them
\* having found its name present.
C20_Witness ==
    /\ pc[1] = "L51" /\ loc[1].ok
    /\ pc[2] = "L50"
    /\ mu.readers = {1, 2}
    /\ mu.writer = NoThread

\* ------------------------------------------------------- the whole module
\* A navigation call of the whole-module specification: any step of Next,
\* Prev or GoTo, a call starting only within the bounds of that
\* specification.
NavCall(t) ==
    /\ NextCall(t) \/ PrevCall(t) \/ GoToCall(t)
    /\ pc[t] = "idle" =>
           /\ loc'[t].entry.Scaled < MaxModScaled \/ loc'[t].op = "Prev"
           /\ loc'[t].value <= MaxModScaled

\* The objects the calls in progress may still construct: one for each
\* absent name asked for, one for each private constructor on its way.
Pending ==
    Cardinality({n \in Names : data[n] = Nil /\ \E u \in Threads :
                     /\ \/ pc[u] \in {"L50", "L53", "L55", "L58", "L64"}
                        \/ pc[u] = "L51" /\ ~loc[u].ok
                     /\ loc[u].name = n})
        + Cardinality({u \in Threads : pc[u] = "X91"})

\* A constructor call of the whole-module specifications: any step of
\* XSegmentedIndex or XSharedSegmentedIndex, a call starting only while the
\* objects that exist or are on their way stay within max.
NewCall(t, max) ==
    /\ XSegmentedIndex(t) \/ XSharedSegmentedIndex(t)
    /\ pc[t] = "idle" => Len(heap) + Pending' <= max

\* Goroutines constructing private objects, asking the cache for shared
\* ones, and navigating on any object.
StepMod ==
    \E t \in Threads : NewCall(t, MaxObjects) \/ NavCall(t)

SpecMod == InitReg /\ [][StepMod]_vars

\* The steps of a call that has started and waits for nothing: every step
\* but the first of a call and the acquisition of the cache's exclusive lock.
Continue(t) ==
    \/ NextAddOffset(t) \/ NextIncr(t) \/ NextResult(t) \/ NextUnlock(t)
    \/ PrevSubOffset(t) \/ PrevDecr(t) \/ PrevResult(t) \/ PrevUnlock(t)
    \/ GoToSeed(t) \/ GoToStep(t) \/ GoToLoopExit(t) \/ GoToCorrect(t)
    \/ GoToReset(t) \/ GoToResult(t) \/ GoToUnlock(t)
    \/ GetLookup(t) \/ GetRUnlock(t) \/ GetRecheck(t) \/ GetTranslate(t)
    \/ GetConstruct(t) \/ GetStore(t) \/ GetUnlock(t) \/ GetReturn(t)
    \/ Panicked(t)
    \/ XSegmentedIndexConstruct(t) \/ XSegmentedIndexReturn(t)

\* The whole module under a fair scheduler: a goroutine that can run its
\* next statement does run it, and a goroutine waiting in s.mu.Lock() gets
\* the lock if it is free again and again (sync.RWMutex holds new readers
\* back while a writer waits, and sync.Mutex hands over to starved waiters).
\* Nothing obliges a goroutine to start a call.
StepFair ==
    \E t \in Threads : NewCall(t, MaxFairObjects) \/ NavCall(t)

FairMod ==
    /\ InitReg
    /\ [][StepFair]_vars
    /\ \A t \in Threads : WF_vars(Continue(t)) /\ SF_vars(GetLock(t))

TripleOf(s) == <<s.start, s.lcd, s.offsets>>

\* Goroutine t takes a step of Next, Prev or GoTo.
Navigates(t) ==
    /\ pc'[t] # pc[t]
    /\ \/ pc[t] # "idle" /\ loc[t].op \in {"Next", "Prev", "GoTo"}
       \/ pc[t] = "idle" /\ loc'[t].op \in {"Next", "Prev", "GoTo"}

\* The object that step is on.
Navigated(t) == IF pc[t] = "idle" THEN loc'[t].self ELSE loc[t].self

\* C18: XSegmentedIndex appends a new object with the cursor (0, 0) and
\* touches neither the cache nor the objects there are; the cache never
\* holds, and get never stores, an object XSegmentedIndex made; no step
\* changes the triple of an object; and a step of Next, Prev or GoTo changes
\* nothing but scaled, unscaled and mx of the object it is on: not the cache,
\* not the set of objects, not any other object.
C18_NavigationTouchesOneCursor ==
    /\ [](/\ \A n \in Names : data[n] \notin private
          /\ private \subseteq DOMAIN heap
          /\ \A t \in Threads :
                 /\ pc[t] = "L65" => loc[t].array \notin private
                 /\ pc[t] = "X92" => loc[t].array \in private)
    /\ [][/\ \A k \in DOMAIN heap :
                 k \in DOMAIN heap' /\ TripleOf(heap'[k]) = TripleOf(heap[k])
          /\ \A t \in Threads :
                 /\ (pc[t] = "X91" /\ pc'[t] # pc[t]) =>
                        /\ pc'[t] = "X92"
                        /\ loc'[t].array = Len(heap) + 1
                        /\ DOMAIN heap' = DOMAIN heap \cup {loc'[t].array}
                        /\ SegmentedIndexResult(heap'[loc'[t].array]) = ZeroResult
                        /\ heap'[loc'[t].array].mx = NoThread
                        /\ \A k \in DOMAIN heap : heap'[k] = heap[k]
                        /\ data' = data
                 /\ (pc'[t] # pc[t] /\ "XSegmentedIndex" \in {loc[t].op, loc'[t].op}) =>
                        data' = data /\ mu' = mu
                 /\ Navigates(t) =>
                        /\ data' = data
                        /\ mu' = mu
                        /\ private' = private
                        /\ DOMAIN heap' = DOMAIN heap
                        /\ \A k \in DOMAIN heap \ {Navigated(t)} : heap'[k] = heap[k]]_vars

\* C18 witness: a private object and an object of the cache both have moved
\* cursors, and a goroutine is in the middle of a call on the private one.
C18_Witness ==
    \E k \in private, n \in Names :
        /\ data[n] # Nil
        /\ heap[k].scaled >= 1
        /\ heap[data[n]].scaled >= 1
        /\ heap[k].mx # NoThread
        /\ heap[k].unscaled # heap[data[n]].unscaled

====
